---- MODULE Spec2Model ----
(***************************************************************************)
(* Catalog synchronisation of the multi-store backend: the batch ingress   *)
(* endpoint (api/v1/endpoints/sync.py), the request schema                 *)
(* (schemas/schemas.py), the sync engine (services/sync_engine.py) and the *)
(* tables it writes (models/models.py).                                    *)
(*                                                                         *)
(* Each worker process serves one request at a time on its own database   *)
(* session (core/database.py get_db; main.py: "Use multiple workers in     *)
(* production").  A query and the commit that follows it are two database  *)
(* round trips, so another worker's commit can fall between them; the      *)
(* model makes each round trip one atomic step.                            *)
(*                                                                         *)
(* A commit that the database rejects raises out of db.commit() and leaves  *)
(* the session's transaction rolled back and inactive: until rollback() is *)
(* called, every later use of the session raises PendingRollbackError.     *)
(*                                                                         *)
(* Units: discount_percent is kept in hundredths of a percent (the code    *)
(* rounds to two decimals); the clock `now` counts the requests that have  *)
(* arrived, so a timestamp tells which request's arrival it follows.       *)
(***************************************************************************)
EXTENDS Integers, Sequences, FiniteSets, TLC

\* ------------------------------------------------------------------ bounds
MaxRequests == 2
MaxBatchLen == 2

\* ------------------------------------------------------- program constants
MaxItems == 1000
HTTP_401_UNAUTHORIZED == 401
HTTP_403_FORBIDDEN == 403
HTTP_500_INTERNAL_SERVER_ERROR == 500

\* ------------------------------------------------------------ input domains
Workers == {"w1", "w2"}
StoreIds == {"s1", "s2"}
ApiKeys == {"k1", "k2", "kx"}
ExternalIds == {"e1", "e2"}
Names == {"aa", "bb"}
LongName == "name of more than 500 characters"
NulId == "id with a NUL character"
Mrps == {100}
Prices == {75}
Quantities == {0, 1}
SyncTypes == {"delta", "full", "inventory_only"}

\* Store.sync_api_key: unique, not null; "kx" is the key of no store.
sync_api_key(st) == IF st = "s1" THEN "k1" ELSE "k2"

VARIABLES stores, products, sync_logs, session, received, now, replay

\* The tier classifier: the counts its queries find, the tier changes it has logged, how
\* often it ran for a store since the store's counts last changed, and what the periodic
\* task returned.
VARIABLES activity, tier_changes, evaluations, task_result

\* The edge of the application: the counters of the shared cache, whether the cache
\* answers, the time in seconds, the calls of check_rate_limit in progress, the request
\* the middleware stack served last, the store entries of the cache, and its catalog
\* entries (product details and per-product inventory).
VARIABLES counters, redis_up, clock, caller, served, tenant_cache, catalog_cache

sync_vars == <<stores, products, sync_logs, session, received, now, replay>>

tier_vars == <<activity, tier_changes, evaluations, task_result>>

edge_vars == <<counters, redis_up, clock, caller, served, tenant_cache, catalog_cache>>

vars == <<sync_vars, tier_vars, edge_vars>>

\* ------------------------------------------------------------ request schema
\* A record whose external_id is missing or empty.
BadItem == [external_id |-> "", name |-> "aa", mrp |-> 100, selling_price |-> 75, quantity |-> 1]

ItemsOf(ids, names, quantities) == [external_id : ids, name : names, mrp : Mrps, selling_price : Prices, quantity : quantities]

BatchesOf(items, lens) == UNION {[1..n -> items] : n \in lens}

RequestsOf(keys, store_ids, batches) == [api_key : keys, store_id : store_ids, sync_type : SyncTypes, products : batches]

\* The batches of store s1's agent: two products, a name the products table takes and
\* one it does not, and an external_id the driver cannot send.
Requests == RequestsOf({"k1"}, {"s1"}, BatchesOf(ItemsOf(ExternalIds, {"aa", LongName}, Quantities) \cup ItemsOf({NulId}, {"aa"}, {1}), 1..MaxBatchLen))

\* Two agents of store s1 that send the same product at once: one restocks it, the
\* other renames it.
HotRequests == RequestsOf({"k1"}, {"s1"}, BatchesOf(ItemsOf({"e1"}, {"aa"}, Quantities) \cup ItemsOf({"e1"}, {"bb"}, {0}), 1..MaxBatchLen))

\* Any caller: every key with every store_id, batches that are empty or hold a bad record.
AnyRequests == RequestsOf(ApiKeys, StoreIds, BatchesOf(ItemsOf({"e1"}, {"aa"}, Quantities) \cup {BadItem}, 0..MaxBatchLen))

\* SyncProductItem: external_id min_length=1, mrp > 0, selling_price > 0, quantity >= 0
\* (every name of Names has the two characters name's min_length asks for).
SyncProductItem(p) == p.external_id # "" /\ p.mrp > 0 /\ p.selling_price > 0 /\ p.quantity >= 0

\* A SyncBatchRequest without max_items on its products.
SyncBatchRequest_unbounded(req) ==
    /\ req.sync_type \in SyncTypes
    /\ Len(req.products) # 0
    /\ \A k \in 1..Len(req.products) : SyncProductItem(req.products[k])

\* SyncBatchRequest: the sync_type pattern, max_items on products, validate_products,
\* and every element a SyncProductItem.
SyncBatchRequest(req) ==
    /\ req.sync_type \in SyncTypes
    /\ Len(req.products) <= MaxItems
    /\ Len(req.products) # 0
    /\ \A k \in 1..Len(req.products) : SyncProductItem(req.products[k])

\* ------------------------------------------------------------- pure helpers
\* MD5 over "name|mrp|selling_price|quantity": one value per combination of the four
\* fields, and of nothing else.
_calculate_checksum(p) == <<p.name, p.mrp, p.selling_price, p.quantity>>

\* round(((mrp - selling_price) / mrp) * 100, 2), in hundredths of a percent.
_calculate_discount(mrp, selling_price) == IF mrp > 0 THEN (2 * (mrp - selling_price) * 10000 + mrp) \div (2 * mrp) ELSE 0

\* A query that filters on external_id alone.
find_product_any_store(rows, store_id, external_id) ==
    LET hits == {k \in 1..Len(rows) : rows[k].external_id = external_id}
    IN IF hits = {} THEN 0 ELSE CHOOSE k \in hits : \A j \in hits : k <= j

\* query(Product).filter(store_id, external_id).first(): the row's position, 0 for None.
find_product(rows, store_id, external_id) ==
    LET hits == {k \in 1..Len(rows) : rows[k].store_id = store_id /\ rows[k].external_id = external_id}
    IN IF hits = {} THEN 0 ELSE CHOOSE k \in hits : \A j \in hits : k <= j

NoProduct == [store_id |-> "", external_id |-> "", name |-> "", mrp |-> 0, selling_price |-> 0, quantity |-> 0, is_in_stock |-> FALSE, discount_percent |-> 0, sync_checksum |-> <<>>, sync_version |-> 0, last_synced_at |-> 0]

\* Product(...) of the create branch.
new_product(store_id, p, t) ==
    [store_id |-> store_id, external_id |-> p.external_id, name |-> p.name, mrp |-> p.mrp,
     selling_price |-> p.selling_price, quantity |-> p.quantity, is_in_stock |-> p.quantity > 0,
     discount_percent |-> _calculate_discount(p.mrp, p.selling_price),
     sync_checksum |-> _calculate_checksum(p), sync_version |-> 1, last_synced_at |-> t]

_update_product_fields(product, data) ==
    [product EXCEPT !.name = data.name, !.mrp = data.mrp, !.selling_price = data.selling_price,
                    !.quantity = data.quantity,
                    !.discount_percent = _calculate_discount(data.mrp, data.selling_price)]

\* The loaded object after the assignments of the update branch.
updated_product(existing, p, t) ==
    LET u == _update_product_fields(existing, p)
    IN [u EXCEPT !.sync_checksum = _calculate_checksum(p), !.sync_version = existing.sync_version + 1,
                 !.last_synced_at = t, !.is_in_stock = u.quantity > 0]

\* An inventory-only branch that takes the record's fingerprint as a full upsert does.
inventory_product_resynced(product, p, t) ==
    [product EXCEPT !.quantity = p.quantity, !.is_in_stock = p.quantity > 0, !.last_synced_at = t,
                    !.sync_checksum = _calculate_checksum(p), !.sync_version = @ + 1]

\* The loaded object after the assignments of the inventory-only branch.
inventory_product(product, p, t) ==
    [product EXCEPT !.quantity = p.quantity, !.is_in_stock = p.quantity > 0, !.last_synced_at = t]

\* db.commit() of a loaded object: the session's unit of work writes the attributes
\* whose value differs from the one it loaded, and leaves the row's other columns as
\* they are in the database at that moment.
flush(current, loaded, obj) == [f \in DOMAIN current |-> IF obj[f] # loaded[f] THEN obj[f] ELSE current[f]]

\* The filter of the query binds external_id as a string literal, which the driver
\* refuses to adapt when it holds a NUL character: the statement raises before it is
\* sent, and the session's transaction stays as it is.
adaptable(external_id) == external_id # NulId

\* Column name = String(500): the database takes the row only when the name fits.
name_fits(row) == row.name # LongName

\* The products table without its unique index.
no_unique_index(rows, row) == FALSE

\* Index idx_product_store_external, unique on (store_id, external_id).
idx_product_store_external(rows, row) == \E k \in 1..Len(rows) : rows[k].store_id = row.store_id /\ rows[k].external_id = row.external_id

\* A comparison that never skips.
unchanged_never(sync_type, existing, checksum) == FALSE

\* "Update only if changed": the delta branch that returns without a write.
unchanged(sync_type, existing, checksum) == sync_type = "delta" /\ existing.sync_checksum = checksum

\* What _upsert_product returns on that branch.
unchanged_result == "updated"

\* ---------------------------------------------------------------- sessions
ZeroStats == [processed |-> 0, created |-> 0, updated |-> 0, failed |-> 0, errors |-> <<>>]

NoRequest == [api_key |-> "", store_id |-> "", sync_type |-> "", products |-> <<>>]

NoResponse == [success |-> FALSE, sync_id |-> 0, processed |-> 0, created |-> 0, updated |-> 0, failed |-> 0, errors |-> <<>>]

IdleSession == [pc |-> "idle", request |-> NoRequest, i |-> 0, stats |-> ZeroStats, sync_id |-> 0, row |-> 0, loaded |-> NoProduct, deactive |-> FALSE, http |-> 0, response |-> NoResponse]

\* The try body of the loop after a record's upsert returned `success`.
record_done(s, success) ==
    [s EXCEPT !.pc = "loop", !.i = s.i + 1, !.row = 0, !.loaded = NoProduct,
              !.stats.created = IF success = "created" THEN @ + 1 ELSE @,
              !.stats.updated = IF success = "updated" THEN @ + 1 ELSE @,
              !.stats.processed = @ + 1]

\* The except branch of the loop: the failure is counted and the loop goes on.
record_failed(s, error) ==
    [s EXCEPT !.pc = "loop", !.i = s.i + 1, !.row = 0, !.loaded = NoProduct,
              !.stats.failed = @ + 1,
              !.stats.errors = Append(@, [external_id |-> s.request.products[s.i].external_id, error |-> error])]

\* db.commit() raised in its flush: the transaction is rolled back and left inactive
\* (no rollback() follows in the loop's except branch).
flush_failed(s) == [s EXCEPT !.deactive = TRUE]

\* A key check that does not look at is_active.
verify_key_only(strs, key) == IF {st \in StoreIds : sync_api_key(st) = key} = {} THEN HTTP_401_UNAUTHORIZED ELSE 200

\* verify_sync_api_key: the status it raises, or 200 with the store it returns.
store_of_key(key) == {st \in StoreIds : sync_api_key(st) = key}

verify_sync_api_key(strs, key) ==
    IF store_of_key(key) = {} THEN HTTP_401_UNAUTHORIZED
    ELSE IF ~strs[CHOOSE st \in store_of_key(key) : TRUE].is_active THEN HTTP_403_FORBIDDEN
    ELSE 200

\* The status the endpoint answers before any record is looked at: the dependency,
\* then the body's validation, then the store_id comparison, whose HTTPException(403)
\* is raised inside the try and caught by `except Exception`.
admission(strs, req) ==
    IF verify_sync_api_key(strs, req.api_key) # 200 THEN verify_sync_api_key(strs, req.api_key)
    ELSE IF ~SyncBatchRequest(req) THEN 422
    ELSE IF sync_api_key(req.store_id) # req.api_key THEN HTTP_500_INTERNAL_SERVER_ERROR
    ELSE 200

\* SyncLog(...) of _log_sync, added to the table.
_log_sync(logs, store_id, sync_id, sync_type, stats) ==
    Append(logs, [id |-> sync_id, store_id |-> store_id, sync_type |-> sync_type,
                  status |-> IF stats.failed = 0 THEN "success" ELSE IF stats.processed > 0 THEN "partial" ELSE "failed",
                  records_received |-> stats.processed + stats.failed,
                  records_created |-> stats.created, records_updated |-> stats.updated,
                  records_failed |-> stats.failed])

\* store.last_sync_at = datetime.utcnow() after the loop.
touch_store(strs, store_id, t) == [strs EXCEPT ![store_id].last_sync_at = t]

\* TierManager._get_activity_metrics: the counts of the last 24 hours.  `activity` holds
\* the number of the store's orders of the day and of its items updated within the day
\* that are not rows of `rows`; every row of `rows` was written within the day.
_get_activity_metrics(rows, store_id) ==
    LET mine == {k \in 1..Len(rows) : rows[k].store_id = store_id}
    IN [orders_per_day |-> activity[store_id].orders_per_day,
        products_updated_per_day |-> activity[store_id].products_updated_per_day + Cardinality(mine),
        total_products |-> activity[store_id].products_updated_per_day + Cardinality(mine)]

\* A classifier that tries the lowest threshold first.
_calculate_tier_bottom_up(metrics) ==
    IF metrics.orders_per_day < 5 /\ metrics.products_updated_per_day < 10 THEN "tier4"
    ELSE IF metrics.orders_per_day >= 5 \/ metrics.products_updated_per_day >= 10 THEN "tier3"
    ELSE IF metrics.orders_per_day >= 20 \/ metrics.products_updated_per_day >= 30 THEN "tier2"
    ELSE "tier1"

_calculate_tier(metrics) ==
    IF metrics.orders_per_day >= 50 \/ metrics.products_updated_per_day >= 100 THEN "tier1"
    ELSE IF metrics.orders_per_day >= 20 \/ metrics.products_updated_per_day >= 30 THEN "tier2"
    ELSE IF metrics.orders_per_day >= 5 \/ metrics.products_updated_per_day >= 10 THEN "tier3"
    ELSE "tier4"

_get_sync_interval(tier) == IF tier = "tier1" THEN 5 ELSE IF tier = "tier2" THEN 15 ELSE IF tier = "tier3" THEN 60 ELSE 240

\* A classifier that logs a change on every run.
tier_always_logged(strs, store_id, rows) == TRUE

\* "Update if changed": the comparison that guards the write and the log line.
tier_changed(strs, store_id, rows) == _calculate_tier(_get_activity_metrics(rows, store_id)) # strs[store_id].sync_tier

\* TierManager.evaluate_and_adjust_tier, called by the endpoint after the batch.
evaluate_and_adjust_tier(strs, store_id, rows) ==
    LET new_tier == _calculate_tier(_get_activity_metrics(rows, store_id))
    IN IF tier_changed(strs, store_id, rows)
       THEN [strs EXCEPT ![store_id].sync_tier = new_tier, ![store_id].sync_interval_minutes = _get_sync_interval(new_tier)]
       ELSE strs

SyncBatchResponse(sync_id, stats) ==
    [success |-> stats.failed = 0, sync_id |-> sync_id, processed |-> stats.processed,
     created |-> stats.created, updated |-> stats.updated, failed |-> stats.failed, errors |-> stats.errors]

NoReplay == [on |-> FALSE, snap |-> <<>>]

NoActivity == [orders_per_day |-> 0, products_updated_per_day |-> 0]

NoResult == [evaluated |-> -1, updated |-> -1]

\* ------------------------------------------------------------ rate limiter
MaxClock == 4

Callers == {"c1", "c2", "c3"}

Identifiers == {"10.0.0.1", "10.0.0.2"}

Endpoints == {"/a", "/b"}

\* The (limit, window) the limiter is called with for an endpoint.
LimitOf(endpoint) == IF endpoint = "/a" THEN 1 ELSE 2

WindowOf(endpoint) == IF endpoint = "/a" THEN 2 ELSE 3

\* cache_key = f"ratelimit:{identifier}:{endpoint}:{current_minute}"
cache_key(identifier, endpoint, current_minute) == <<"ratelimit", identifier, endpoint, current_minute>>

\* The value of a key of the cache; a key that is not there counts as 0 for INCRBY.
value_of(cnts, key) == IF \E e \in cnts : e.key = key THEN (CHOOSE e \in cnts : e.key = key).value ELSE 0

\* An increment that does not see the value other callers left.
incrby_unshared(cnts, key, amount) == amount

\* INCRBY: one atomic command of the cache, which answers with the new value.
incrby(cnts, key, amount) == value_of(cnts, key) + amount

\* The cache after RedisClient.increment(key, ttl=ttl) at time t: the new value, and
\* EXPIRE when the value is the amount, that is on the first increment of the key.
incremented(cnts, key, ttl, t) ==
    LET value == incrby(cnts, key, 1)
        old == {e \in cnts : e.key = key}
        expire_at == IF value = 1 \/ old = {} THEN t + ttl ELSE (CHOOSE e \in old : TRUE).expire_at
    IN (cnts \ old) \cup {[key |-> key, value |-> value, expire_at |-> expire_at]}

\* An increment that raises when the cache does not answer, which no caller catches
\* but the framework: the request is refused.
increment_failing_closed(cnts, up, key, limit) == IF up THEN incrby(cnts, key, 1) ELSE limit + 1

\* What RedisClient.increment returns: 0 without a connection and on any exception.
increment(cnts, up, key, limit) == IF up THEN incrby(cnts, key, 1) ELSE 0

\* A limiter that refuses the call that reaches the limit.
allowed_below(count, limit) == count < limit

allowed(count, limit) == count <= limit

remaining(count, limit) == IF limit - count > 0 THEN limit - count ELSE 0

reset_time(current_minute, window) == (current_minute + 1) * window

NoCall == [allowed |-> FALSE, remaining |-> -1, reset |-> -1]

IdleCaller ==
    [pc |-> "idle", identifier |-> "", endpoint |-> "", limit |-> 0, window |-> 0, called_at |-> -1,
     current_minute |-> -1, count |-> -1, result |-> NoCall, returned_at |-> -1]

\* ------------------------------------------------------------ middleware
RATE_LIMIT_TIER1_SYNC == 1000

RATE_LIMIT_TIER2_SYNC == 500

RATE_LIMIT_TIER3_SYNC == 200

RATE_LIMIT_STOREFRONT == 100

RATE_LIMIT_DASHBOARD == 200

HTTP_404_NOT_FOUND == 404

HTTP_429_TOO_MANY_REQUESTS == 429

\* A path is the sequence of its segments: "/api/v1/sync/products/batch" is
\* <<"api", "v1", "sync", "products", "batch">> and "/" is <<>>.
SyncPath == <<"api", "v1", "sync", "products", "batch">>

StorefrontPath == <<"api", "v1", "storefront", "products">>

PaymentsPath == <<"api", "v1", "payments", "create">>

\* part + "/" in path: the segments of `part` in a row, and a "/" after them.
path_contains(path, part) ==
    \E i \in 0..(Len(path) - Len(part) - 1) : SubSeq(path, i + 1, i + Len(part)) = part

\* path.startswith(prefix), for a prefix that ends where a segment ends.
path_startswith(path, prefix) == Len(prefix) <= Len(path) /\ SubSeq(path, 1, Len(prefix)) = prefix

\* TenantMiddleware.is_public_endpoint: the last entry of public_paths is "/".
public_paths ==
    {<<"api", "v1", "auth">>, <<"api", "v1", "admin">>, <<"api", "v1", "products">>, <<"api", "v1", "orders">>,
     <<"api", "v1", "stores">>, <<"api", "v1", "storefront">>, <<"health">>, <<"api", "docs">>, <<"api", "redoc">>,
     <<"api", "openapi.json">>, <<>>}

is_public_endpoint(path) == \E prefix \in public_paths : path_startswith(path, prefix)

\* Store.domain, a unique column that no modelled operation writes.
domain_of(st) == IF st = "s1" THEN "shop1.example" ELSE "shop2.example"

\* A store id that is a UUID of no store, and a value that is no UUID.
UnknownId == "s9"

NotAUuid == "not-a-uuid"

\* request.state: an attribute that was never set is Unset.
Unset == "<unset>"

FreshState == [store_id |-> Unset, store_tier |-> Unset]

getattr(state, name, default) == IF state[name] = Unset THEN default ELSE state[name]

\* The dict a lookup caches and the Store it returns; no store is None.
NoStore == [id |-> "", is_active |-> FALSE]

store_dict(strs, st) == [id |-> st, is_active |-> strs[st].is_active]

\* redis_client.get_json(cache_key): None without the cache or the key.
get_json(cache, up, key) ==
    IF up /\ \E e \in cache : e.key = key THEN (CHOOSE e \in cache : e.key = key).store ELSE NoStore

\* redis_client.set_json(cache_key, store_dict, ttl=3600) at time t.
set_json(cache, up, key, store, t) ==
    IF up THEN {e \in cache : e.key # key} \cup {[key |-> key, store |-> store, expire_at |-> t + 3600]} ELSE cache

\* A lookup: the Store it returns, the cache it leaves, whether it raised, and the
\* step of the resolution that found the store.
Looked(store, cache, raised) == [store |-> store, cache |-> cache, raised |-> raised, via |-> "none"]

found_by(looked, via) == IF looked.store # NoStore THEN [looked EXCEPT !.via = via] ELSE looked

\* A lookup whose hit writes the entry again, with a new time to live.
lookup_renewing(cached, cache, up, key, row, t) ==
    IF cached # NoStore THEN Looked(cached, set_json(cache, up, key, cached, t), FALSE)
    ELSE IF row # NoStore THEN Looked(row, set_json(cache, up, key, row, t), FALSE)
    ELSE Looked(NoStore, cache, FALSE)

\* The shape of every lookup: the cache first, then the query, whose hit is cached.
lookup(cached, cache, up, key, row, t) ==
    IF cached # NoStore THEN Looked(cached, cache, FALSE)
    ELSE IF row # NoStore THEN Looked(row, set_json(cache, up, key, row, t), FALSE)
    ELSE Looked(NoStore, cache, FALSE)

get_store_by_domain(cache, up, strs, domain, t) ==
    lookup(get_json(cache, up, <<"store", "domain", domain>>), cache, up, <<"store", "domain", domain>>,
           IF \E st \in StoreIds : domain_of(st) = domain
           THEN store_dict(strs, CHOOSE st \in StoreIds : domain_of(st) = domain) ELSE NoStore, t)

\* get_store_by_id: the query compares the UUID column with the string it was given,
\* which raises for a string that is no UUID.
get_store_by_id(cache, up, strs, store_id, t) ==
    IF get_json(cache, up, <<"store", store_id, "config">>) = NoStore /\ store_id = NotAUuid
    THEN Looked(NoStore, cache, TRUE)
    ELSE lookup(get_json(cache, up, <<"store", store_id, "config">>), cache, up, <<"store", store_id, "config">>,
                IF store_id \in StoreIds THEN store_dict(strs, store_id) ELSE NoStore, t)

\* get_default_store: `first` is the row the filter on is_active yields first; the query
\* has no order, so it is any active store.
get_default_store(cache, up, strs, first, t) ==
    lookup(get_json(cache, up, <<"store", "default">>), cache, up, <<"store", "default">>,
           IF first = "" THEN NoStore ELSE store_dict(strs, first), t)

\* request.headers.get("host", "").split(":")[0]; the header is its parts between colons.
host_of(req) == IF Len(req.host) = 0 THEN "" ELSE req.host[1]

\* host.startswith("localhost") or host.startswith("127.0.0.1")
is_local(host) == host \in {"localhost", "127.0.0.1"}

\* "Try custom domain"
try_domain(req, cache, up, strs, t) ==
    IF host_of(req) # "" /\ ~is_local(host_of(req))
    THEN found_by(get_store_by_domain(cache, up, strs, host_of(req), t), "domain")
    ELSE Looked(NoStore, cache, FALSE)

\* "Try X-Store-ID header", if not store.
try_header(req, up, strs, t, looked) ==
    IF looked.store = NoStore /\ ~looked.raised /\ req.x_store_id # ""
    THEN found_by(get_store_by_id(looked.cache, up, strs, req.x_store_id, t), "header")
    ELSE looked

\* "Try query parameter", if not store.
try_query(req, up, strs, t, looked) ==
    IF looked.store = NoStore /\ ~looked.raised /\ req.store_id # ""
    THEN found_by(get_store_by_id(looked.cache, up, strs, req.store_id, t), "query")
    ELSE looked

\* A resolution that asks the header before the domain.
resolve_store_header_first(req, cache, up, strs, t) ==
    try_query(req, up, strs, t,
              IF try_header(req, up, strs, t, Looked(NoStore, cache, FALSE)).store = NoStore
                 /\ ~try_header(req, up, strs, t, Looked(NoStore, cache, FALSE)).raised
              THEN try_domain(req, cache, up, strs, t)
              ELSE try_header(req, up, strs, t, Looked(NoStore, cache, FALSE)))

\* The three lookups of TenantMiddleware.dispatch, each tried only while no store is found.
resolve_store(req, cache, up, strs, t) ==
    try_query(req, up, strs, t, try_header(req, up, strs, t, try_domain(req, cache, up, strs, t)))

\* What TenantMiddleware.dispatch leaves: request.state, the cache, the exception it
\* raised (0 when it called the next layer), and how the store was found.
Tenant(state, cache, raised, via) == [state |-> state, cache |-> cache, raised |-> raised, via |-> via]

\* "For public endpoints without store, use default store"
use_default(state, looked) ==
    IF looked.store # NoStore
    THEN Tenant([state EXCEPT !.store_id = looked.store.id], looked.cache, 0, "default")
    ELSE Tenant(state, looked.cache, 0, "none")

\* TenantMiddleware.dispatch after the lookups, whose outcome is `looked`.
validate_store(req, state, up, strs, first, t, looked) ==
    IF looked.raised THEN Tenant(state, looked.cache, HTTP_500_INTERNAL_SERVER_ERROR, looked.via)
    ELSE IF path_contains(req.path, <<"sync">>) THEN Tenant(state, looked.cache, 0, looked.via)
    ELSE IF looked.store # NoStore
    THEN IF ~looked.store.is_active THEN Tenant(state, looked.cache, HTTP_403_FORBIDDEN, looked.via)
         ELSE Tenant([state EXCEPT !.store_id = looked.store.id], looked.cache, 0, looked.via)
    ELSE IF is_public_endpoint(req.path)
    THEN use_default(state, get_default_store(looked.cache, up, strs, first, t))
    ELSE Tenant(state, looked.cache, HTTP_404_NOT_FOUND, "none")

TenantMiddleware_dispatch(req, state, cache, up, strs, first, t) ==
    IF req.path \in {<<"health">>, <<>>, <<"api", "docs">>, <<"api", "redoc">>, <<"api", "openapi.json">>}
    THEN Tenant(state, cache, 0, "skipped")
    ELSE validate_store(req, state, up, strs, first, t, resolve_store(req, cache, up, strs, t))

\* RateLimitMiddleware.get_rate_limit: (limit, window), limit 0 for None.
get_rate_limit(path, state) ==
    IF path_contains(path, <<"api", "v1", "sync">>)
    THEN IF getattr(state, "store_tier", "tier3") = "tier1" THEN <<RATE_LIMIT_TIER1_SYNC, 60>>
         ELSE IF getattr(state, "store_tier", "tier3") = "tier2" THEN <<RATE_LIMIT_TIER2_SYNC, 60>>
         ELSE <<RATE_LIMIT_TIER3_SYNC, 60>>
    ELSE IF path_contains(path, <<"api", "v1", "storefront">>) THEN <<RATE_LIMIT_STOREFRONT, 60>>
    ELSE IF path_contains(path, <<"api", "v1", "dashboard">>) THEN <<RATE_LIMIT_DASHBOARD, 60>>
    ELSE <<0, 0>>

\* RateLimitMiddleware.get_identifier
get_identifier(req, state) ==
    IF path_contains(req.path, <<"api", "v1", "sync">>) THEN getattr(state, "store_id", "unknown") ELSE req.client

\* app.add_middleware puts the class in front of those added before it, and the first
\* of the list is the outermost layer.
add_middleware(user_middleware, cls) == <<cls>> \o user_middleware

user_middleware == add_middleware(add_middleware(<<>>, "TenantMiddleware"), "RateLimitMiddleware")

\* The layer `outer` sees the request before the layer `inner` does.
wraps(outer, inner) ==
    \E i, j \in 1..Len(user_middleware) : i < j /\ user_middleware[i] = outer /\ user_middleware[j] = inner

NoHttpRequest == [path |-> <<>>, host |-> <<>>, x_store_id |-> "", store_id |-> "", client |-> "", body_store_id |-> ""]

NoServed ==
    [n |-> 0, request |-> NoHttpRequest, minute |-> -1, limit |-> 0, identifier |-> "", count |-> -1,
     result |-> NoCall, state |-> FreshState, via |-> "none", raised |-> 0, handled |-> FALSE]

\* ------------------------------------------------------------- catalog cache
\* CacheKeys: "store:{store_id}:product:{product_id}" and
\* "store:{store_id}:inventory:{product_id}", as the parts between the colons; a
\* product's id is its position in the table.  (No endpoint writes the key of
\* CacheKeys.store_products, "store:{store_id}:products:all".)
product(store_id, product_id) == <<"store", store_id, "product", product_id>>

inventory(store_id, product_id) == <<"store", store_id, "inventory", product_id>>

\* The third part of a key starts with "product".
starts_with_product(part) == part \in {"product", "products"}

\* redis KEYS "store:{store_id}:product*".
keys(cache, store_id) == {e \in cache : e.key[1] = "store" /\ e.key[2] = store_id /\ starts_with_product(e.key[3])}

\* redis_client.delete(key): nothing without the cache.
delete(cache, up, key) == IF up THEN {e \in cache : e.key # key} ELSE cache

\* redis_client.delete_pattern(pattern): nothing without the cache.
delete_pattern(cache, up, store_id) == IF up THEN cache \ keys(cache, store_id) ELSE cache

_invalidate_store_cache(cache, up, store_id) == delete_pattern(cache, up, store_id)

\* ProductResponse of a row, and the inventory_data of get_product_inventory.
ProductResponse(row) == [name |-> row.name, mrp |-> row.mrp, selling_price |-> row.selling_price, quantity |-> row.quantity, is_in_stock |-> row.is_in_stock]

inventory_data(row) == [quantity |-> row.quantity, is_in_stock |-> row.is_in_stock]

\* An entry of the catalog cache, written while request number t was the last received.
cached_entry(key, data, t) == [key |-> key, data |-> data, written_at |-> t]

\* --------------------------------------------------------------- storefront
\* create_order's first loop: every line names a product of the store whose quantity,
\* as the table has it, is not below the line's.
in_stock(rows, store_id, items) ==
    \A i \in 1..Len(items) :
       /\ items[i].product_id \in 1..Len(rows) /\ rows[items[i].product_id].store_id = store_id
       /\ rows[items[i].product_id].quantity >= items[i].quantity

\* "Update product quantity" for one line: the decrement, and is_in_stock cleared when
\* the quantity is exactly 0.
update_quantity(row, quantity) ==
    [row EXCEPT !.quantity = row.quantity - quantity,
                !.is_in_stock = IF row.quantity - quantity = 0 THEN FALSE ELSE row.is_in_stock]

\* create_order's second loop from line i on.
RECURSIVE update_inventory(_, _, _)
update_inventory(rows, items, i) ==
    IF i > Len(items) THEN rows
    ELSE update_inventory([rows EXCEPT ![items[i].product_id] = update_quantity(rows[items[i].product_id], items[i].quantity)],
                          items, i + 1)

\* ------------------------------------------------------------------- state
\* Nothing has reached the edge of the application.
InitEdge ==
    /\ counters = {}
    /\ redis_up = TRUE
    /\ clock = 0
    /\ caller = [c \in Callers |-> IdleCaller]
    /\ served = NoServed
    /\ tenant_cache = {}
    /\ catalog_cache = {}

InitCatalog ==
    /\ stores = [st \in StoreIds |-> [is_active |-> TRUE, last_sync_at |-> 0, sync_tier |-> "tier3", sync_interval_minutes |-> 30]]
    /\ products = <<>>
    /\ sync_logs = <<>>
    /\ session = [w \in Workers |-> IdleSession]
    /\ received = 0
    /\ now = 0
    /\ replay = NoReplay
    /\ activity = [st \in StoreIds |-> NoActivity]
    /\ tier_changes = 0
    /\ evaluations = [st \in StoreIds |-> 0]
    /\ task_result = NoResult

Init == InitCatalog /\ InitEdge

\* ----------------------------------------------------------------- actions
\* A store is suspended: deactivated, not deleted.
suspend_store(st) ==
    /\ stores[st].is_active
    /\ stores' = [stores EXCEPT ![st].is_active = FALSE]
    /\ UNCHANGED <<products, sync_logs, session, received, now, replay, tier_vars, edge_vars>>

\* What a rejected request leaves in the worker: the status, and of the request the
\* parts the rejection was decided on (the records only when the body was invalid).
rejected(req, http) ==
    [IdleSession EXCEPT !.pc = "rejected", !.http = http,
                        !.request = IF http = 422 THEN req ELSE [req EXCEPT !.products = <<>>]]

\* POST /products/batch arrives at worker w, later than every request before it:
\* admission, then the head of process_batch_sync.
receive(w, req) ==
    /\ session[w].pc \in {"idle", "done", "error", "rejected"}
    /\ received < MaxRequests
    /\ received' = received + 1
    /\ now' = now + 1
    /\ session' = [session EXCEPT ![w] =
          IF admission(stores, req) = 200
          THEN [IdleSession EXCEPT !.pc = "loop", !.request = req, !.i = 1, !.sync_id = received + 1]
          ELSE rejected(req, admission(stores, req))]
    /\ UNCHANGED <<stores, products, sync_logs, tier_vars, edge_vars>>

\* The agent sends a batch; `replay` remembers whether it is the batch this worker
\* answered with success just before, and the catalog it then finds.
sync_products_batch(w, reqs) ==
    \E req \in reqs :
       /\ receive(w, req)
       /\ replay' = IF session[w].pc = "done" /\ session[w].request = req /\ admission(stores, req) = 200
                    THEN [on |-> TRUE, snap |-> products]
                    ELSE NoReplay

\* _upsert_product up to its branch: the query (which raises in an inactive session,
\* or for a literal the driver refuses), the checksum, the comparison.
_upsert_product(w) ==
    LET s == session[w]
        p == s.request.products[s.i]
        sync_type == IF s.pc = "upsert" THEN "full" ELSE s.request.sync_type
        k == find_product(products, s.request.store_id, p.external_id)
    IN /\ \/ s.pc = "loop" /\ s.i <= Len(s.request.products) /\ s.request.sync_type # "inventory_only"
          \/ s.pc = "upsert"
       /\ session' = [session EXCEPT ![w] =
             IF s.deactive THEN record_failed(s, "PendingRollbackError")
             ELSE IF ~adaptable(p.external_id) THEN record_failed(s, "StatementError")
             ELSE IF k # 0 /\ unchanged(sync_type, products[k], _calculate_checksum(p))
             THEN record_done(s, unchanged_result)
             ELSE [s EXCEPT !.pc = IF k # 0 THEN "commit_update" ELSE "commit_insert",
                            !.row = k, !.loaded = IF k # 0 THEN products[k] ELSE NoProduct]]
       /\ UNCHANGED <<stores, products, sync_logs, received, now, replay, tier_vars, edge_vars>>

\* The update branch: the assignments and the commit, which the database rejects when
\* a value it is given does not fit its column.
commit_update(w) ==
    LET s == session[w]
        row == flush(products[s.row], s.loaded, updated_product(s.loaded, s.request.products[s.i], now))
    IN /\ s.pc = "commit_update"
       /\ IF name_fits(row)
          THEN /\ products' = [products EXCEPT ![s.row] = row]
               /\ session' = [session EXCEPT ![w] = record_done(s, "updated")]
          ELSE /\ products' = products
               /\ session' = [session EXCEPT ![w] = record_failed(flush_failed(s), "DataError")]
       /\ UNCHANGED <<stores, sync_logs, received, now, replay, tier_vars, edge_vars>>

\* The create branch: db.add and the commit, which the database rejects when the name
\* does not fit or the unique index holds the pair already.
commit_insert(w) ==
    LET s == session[w]
        row == new_product(s.request.store_id, s.request.products[s.i], now)
    IN /\ s.pc = "commit_insert"
       /\ IF ~name_fits(row)
          THEN /\ products' = products
               /\ session' = [session EXCEPT ![w] = record_failed(flush_failed(s), "DataError")]
          ELSE IF idx_product_store_external(products, row)
          THEN /\ products' = products
               /\ session' = [session EXCEPT ![w] = record_failed(flush_failed(s), "IntegrityError")]
          ELSE /\ products' = Append(products, row)
               /\ session' = [session EXCEPT ![w] = record_done(s, "created")]
       /\ evaluations' = IF products' # products THEN [evaluations EXCEPT ![s.request.store_id] = 0] ELSE evaluations
       /\ UNCHANGED <<stores, sync_logs, received, now, replay, activity, tier_changes, task_result, edge_vars>>

\* _update_inventory_only up to its branch: the query (which raises in an inactive
\* session, or for a literal the driver refuses).
_update_inventory_only(w) ==
    LET s == session[w]
        p == s.request.products[s.i]
        k == find_product(products, s.request.store_id, p.external_id)
    IN /\ s.pc = "loop" /\ s.i <= Len(s.request.products) /\ s.request.sync_type = "inventory_only"
       /\ session' = [session EXCEPT ![w] =
             IF s.deactive THEN record_failed(s, "PendingRollbackError")
             ELSE IF ~adaptable(p.external_id) THEN record_failed(s, "StatementError")
             ELSE IF k # 0 THEN [s EXCEPT !.pc = "commit_inventory", !.row = k, !.loaded = products[k]]
             ELSE [s EXCEPT !.pc = "upsert"]]
       /\ UNCHANGED <<stores, products, sync_logs, received, now, replay, tier_vars, edge_vars>>

\* The inventory-only branch: the assignments, the commit, and the delete of the
\* product's inventory entry.
commit_inventory(w) ==
    LET s == session[w]
        row == flush(products[s.row], s.loaded, inventory_product(s.loaded, s.request.products[s.i], now))
    IN /\ s.pc = "commit_inventory"
       /\ products' = [products EXCEPT ![s.row] = row]
       /\ catalog_cache' = delete(catalog_cache, redis_up, inventory(s.request.store_id, s.row))
       /\ session' = [session EXCEPT ![w] = record_done(s, "updated")]
       /\ UNCHANGED <<stores, sync_logs, received, now, replay, tier_vars, counters, redis_up, clock, caller, served, tenant_cache>>

\* The handler after the loop: last_sync_at and its commit, which raises in an inactive
\* session and is answered by the endpoint's `except Exception`; otherwise the cache
\* invalidation, the SyncLog row, the response, and the endpoint's tier evaluation.
process_batch_sync(w) ==
    LET s == session[w]
    IN /\ s.pc = "loop" /\ s.i > Len(s.request.products)
       /\ IF s.deactive
          THEN /\ session' = [session EXCEPT ![w] = [s EXCEPT !.pc = "error", !.http = HTTP_500_INTERNAL_SERVER_ERROR]]
               /\ UNCHANGED <<stores, sync_logs, tier_changes, evaluations, catalog_cache>>
          ELSE /\ catalog_cache' = _invalidate_store_cache(catalog_cache, redis_up, s.request.store_id)
               /\ stores' = evaluate_and_adjust_tier(touch_store(stores, s.request.store_id, now), s.request.store_id, products)
               /\ tier_changes' = tier_changes + (IF tier_changed(stores, s.request.store_id, products) THEN 1 ELSE 0)
               /\ evaluations' = [evaluations EXCEPT ![s.request.store_id] = @ + 1]
               /\ sync_logs' = _log_sync(sync_logs, s.request.store_id, s.sync_id, s.request.sync_type, s.stats)
               /\ session' = [session EXCEPT ![w] = [s EXCEPT !.pc = "done", !.http = 200, !.response = SyncBatchResponse(s.sync_id, s.stats)]]
       /\ UNCHANGED <<products, received, now, replay, activity, task_result, counters, redis_up, clock, caller, served, tenant_cache>>

\* GET /products/{product_id}: the cached response, or the row's, which it caches.
get_product(store_id, product_id) ==
    /\ product_id \in 1..Len(products) /\ products[product_id].store_id = store_id
    /\ catalog_cache' =
          IF ~redis_up \/ \E e \in catalog_cache : e.key = product(store_id, product_id) THEN catalog_cache
          ELSE catalog_cache \cup {cached_entry(product(store_id, product_id), ProductResponse(products[product_id]), now)}
    /\ UNCHANGED <<sync_vars, tier_vars, counters, redis_up, clock, caller, served, tenant_cache>>

\* GET /products/{product_id}/inventory: the cached response, or the row's, which it
\* caches.
get_product_inventory(store_id, product_id) ==
    /\ product_id \in 1..Len(products) /\ products[product_id].store_id = store_id
    /\ catalog_cache' =
          IF ~redis_up \/ \E e \in catalog_cache : e.key = inventory(store_id, product_id) THEN catalog_cache
          ELSE catalog_cache \cup {cached_entry(inventory(store_id, product_id), inventory_data(products[product_id]), now)}
    /\ UNCHANGED <<sync_vars, tier_vars, counters, redis_up, clock, caller, served, tenant_cache>>

\* POST /orders of the storefront: 404 for a store that is not active, 400 for no line
\* or a line beyond the stock, otherwise the decrements and the commit.
create_order(store_id, items) ==
    /\ products' = IF stores[store_id].is_active /\ Len(items) > 0 /\ in_stock(products, store_id, items)
                    THEN update_inventory(products, items, 1)
                    ELSE products
    /\ UNCHANGED <<stores, sync_logs, session, received, now, replay, tier_vars, edge_vars>>

\* One worker of store s1's agent: batches are served one after the other.
Next ==
    \/ sync_products_batch("w1", Requests)
    \/ _upsert_product("w1")
    \/ commit_update("w1")
    \/ commit_insert("w1")
    \/ _update_inventory_only("w1")
    \/ commit_inventory("w1")
    \/ process_batch_sync("w1")

Spec == Init /\ [][Next]_vars

\* One worker, any caller, stores that get suspended.
NextAdmission ==
    \/ \E st \in StoreIds : suspend_store(st)
    \/ sync_products_batch("w1", AnyRequests)
    \/ _upsert_product("w1")
    \/ commit_update("w1")
    \/ commit_insert("w1")
    \/ _update_inventory_only("w1")
    \/ commit_inventory("w1")
    \/ process_batch_sync("w1")

SpecAdmission == Init /\ [][NextAdmission]_vars

\* Two workers serving store s1's agents at once.
NextConcurrent ==
    \/ \E w \in Workers : sync_products_batch(w, HotRequests)
    \/ \E w \in Workers : _upsert_product(w)
    \/ \E w \in Workers : commit_update(w)
    \/ \E w \in Workers : commit_insert(w)
    \/ \E w \in Workers : _update_inventory_only(w)
    \/ \E w \in Workers : commit_inventory(w)
    \/ \E w \in Workers : process_batch_sync(w)

SpecConcurrent == Init /\ [][NextConcurrent]_vars

\* ------------------------------------------------------------ tier classifier
MaxRuns == 2

MaxTierChanges == 2

Metrics(orders, updates) == [orders_per_day |-> orders, products_updated_per_day |-> updates]

\* Counts on both sides of every threshold of _calculate_tier.
MetricSamples ==
    {Metrics(0, 0), Metrics(4, 9), Metrics(5, 0), Metrics(0, 10),
     Metrics(20, 5), Metrics(19, 30), Metrics(60, 5), Metrics(49, 100)}

\* Orders are placed and items updated, and the window of 24 hours moves on: the counts
\* the classifier's queries find for the store change.
record_activity(st, m) ==
    /\ tier_changes < MaxTierChanges
    /\ activity[st] # m
    /\ activity' = [activity EXCEPT ![st] = m]
    /\ evaluations' = [evaluations EXCEPT ![st] = 0]
    /\ UNCHANGED <<sync_vars, tier_changes, task_result, edge_vars>>

\* One awaited call of TierManager.evaluate_and_adjust_tier(store_id).
adjust_tier(st) ==
    /\ evaluations[st] < MaxRuns
    /\ stores' = evaluate_and_adjust_tier(stores, st, products)
    /\ tier_changes' = tier_changes + (IF tier_changed(stores, st, products) THEN 1 ELSE 0)
    /\ evaluations' = [evaluations EXCEPT ![st] = @ + 1]
    /\ UNCHANGED <<products, sync_logs, session, received, now, replay, activity, task_result, edge_vars>>

\* The hourly Celery task.  It is a plain function: the call of the coroutine function
\* in its loop builds a coroutine that nothing awaits, so the body of
\* evaluate_and_adjust_tier does not run, no store changes and updated_count stays 0.
evaluate_all_store_tiers ==
    LET active == {st \in StoreIds : stores[st].is_active}
    IN /\ task_result' = [evaluated |-> Cardinality(active), updated |-> 0]
       /\ UNCHANGED <<sync_vars, activity, tier_changes, evaluations, edge_vars>>

NextTier ==
    \/ \E st \in StoreIds : suspend_store(st)
    \/ \E st \in StoreIds, m \in MetricSamples : record_activity(st, m)
    \/ \E st \in StoreIds : adjust_tier(st)
    \/ evaluate_all_store_tiers

SpecTier == Init /\ [][NextTier]_vars

\* ------------------------------------------------------------ rate limiter
\* A second passes; the cache drops the keys whose time to live is over.
tick ==
    /\ clock < MaxClock
    /\ clock' = clock + 1
    /\ counters' = {e \in counters : e.expire_at > clock + 1}
    /\ tenant_cache' = {e \in tenant_cache : e.expire_at > clock + 1}
    /\ UNCHANGED <<sync_vars, tier_vars, redis_up, caller, served, catalog_cache>>

\* check_rate_limit up to its await: the bucket of the time it reads, and the key.
check_rate_limit(c, identifier, endpoint, limit, window) ==
    /\ caller[c].pc = "idle"
    /\ caller' = [caller EXCEPT ![c] =
          [IdleCaller EXCEPT !.pc = "increment", !.identifier = identifier, !.endpoint = endpoint,
                             !.limit = limit, !.window = window, !.called_at = clock,
                             !.current_minute = clock \div window]]
    /\ UNCHANGED <<sync_vars, tier_vars, counters, redis_up, clock, served, tenant_cache, catalog_cache>>

\* RedisClient.increment, and check_rate_limit after it: remaining, reset_time, allowed.
increment_and_return(c) ==
    LET s == caller[c]
        key == cache_key(s.identifier, s.endpoint, s.current_minute)
        count == increment(counters, redis_up, key, s.limit)
    IN /\ s.pc = "increment"
       /\ counters' = IF redis_up THEN incremented(counters, key, s.window, clock) ELSE counters
       /\ caller' = [caller EXCEPT ![c] =
             [s EXCEPT !.pc = "returned", !.count = count, !.returned_at = clock,
                       !.result = [allowed |-> allowed(count, s.limit), remaining |-> remaining(count, s.limit),
                                   reset |-> reset_time(s.current_minute, s.window)]]]
       /\ UNCHANGED <<sync_vars, tier_vars, redis_up, clock, served, tenant_cache, catalog_cache>>

\* The connection to the cache is lost, or is back.
redis_outage ==
    /\ redis_up' = ~redis_up
    /\ UNCHANGED <<sync_vars, tier_vars, counters, clock, caller, served, tenant_cache, catalog_cache>>

\* Callers of the limiter at once, each with the limit and window of its endpoint.
NextLimiter ==
    \/ tick
    \/ \E c \in Callers, identifier \in Identifiers, endpoint \in Endpoints :
          check_rate_limit(c, identifier, endpoint, LimitOf(endpoint), WindowOf(endpoint))
    \/ \E c \in Callers : increment_and_return(c)

SpecLimiter == Init /\ [][NextLimiter]_vars

\* Two calls for one client, and a cache that comes and goes.
NextOutage ==
    \/ redis_outage
    \/ tick
    \/ \E c \in {"c1", "c2"}, endpoint \in Endpoints :
          check_rate_limit(c, "10.0.0.1", endpoint, LimitOf(endpoint), WindowOf(endpoint))
    \/ \E c \in Callers : increment_and_return(c)

SpecOutage == Init /\ [][NextOutage]_vars

\* ------------------------------------------------------------ middleware
MaxServed == 3

RATE_LIMIT_ENABLED == TRUE

HttpRequest(path, host, x_store_id, store_id, client, body_store_id) ==
    [path |-> path, host |-> host, x_store_id |-> x_store_id, store_id |-> store_id, client |-> client,
     body_store_id |-> body_store_id]

\* `await call_next(request)` of the limiter, whose next layer is the tenant layer with
\* outcome `tn`: the request reaches the router's handler when the tenant layer, which
\* ends in its own call_next, did not raise.
call_next(tn) == tn.raised = 0

\* RateLimitMiddleware.dispatch with its limit and identifier: it counts before it calls
\* the next layer, whose outcome is `tn`, and raises its 429 after the next layer
\* returned; an exception of an inner layer passes through it.
limited_dispatch(req, tn, limit, window, identifier, count) ==
    /\ counters' = IF redis_up THEN incremented(counters, cache_key(identifier, req.path, clock \div window), window, clock) ELSE counters
    /\ served' = [n |-> served.n + 1, request |-> req, minute |-> clock \div window, limit |-> limit,
                   identifier |-> identifier, count |-> count,
                   result |-> [allowed |-> allowed(count, limit), remaining |-> remaining(count, limit),
                               reset |-> reset_time(clock \div window, window)],
                   state |-> tn.state, via |-> tn.via, handled |-> call_next(tn),
                   raised |-> IF tn.raised # 0 THEN tn.raised
                              ELSE IF allowed(count, limit) THEN 0 ELSE HTTP_429_TOO_MANY_REQUESTS]

\* RateLimitMiddleware.dispatch for the request.state it finds.
RateLimitMiddleware_dispatch(req, tn, rule, identifier) ==
    IF /\ RATE_LIMIT_ENABLED /\ req.path \notin {<<"health">>, <<>>} /\ rule[1] # 0
       /\ wraps("TenantMiddleware", "RateLimitMiddleware") => tn.raised = 0
    THEN limited_dispatch(req, tn, rule[1], rule[2], identifier,
                          increment(counters, redis_up, cache_key(identifier, req.path, clock \div rule[2]), rule[1]))
    ELSE /\ counters' = counters
         /\ served' = [NoServed EXCEPT !.n = served.n + 1, !.request = req, !.state = tn.state, !.via = tn.via,
                                         !.raised = tn.raised, !.handled = call_next(tn)]

\* The two layers in the order of the stack: the limiter sees what the tenant layer
\* set in request.state only if the tenant layer wraps it.
stack_dispatch(req, tn, seen) ==
    /\ RateLimitMiddleware_dispatch(req, tn, get_rate_limit(req.path, seen), get_identifier(req, seen))
    /\ tenant_cache' = tn.cache

\* A request passes the middleware stack, outermost layer first, on its way to the
\* router.  `first` is the row get_default_store's query would yield.
dispatch(req, first) ==
    /\ served.n < MaxServed
    /\ IF \E st \in StoreIds : stores[st].is_active THEN first \in StoreIds /\ stores[first].is_active ELSE first = ""
    /\ stack_dispatch(req, TenantMiddleware_dispatch(req, FreshState, tenant_cache, redis_up, stores, first, clock),
                      IF wraps("TenantMiddleware", "RateLimitMiddleware")
                      THEN TenantMiddleware_dispatch(req, FreshState, tenant_cache, redis_up, stores, first, clock).state
                      ELSE FreshState)
    /\ UNCHANGED <<sync_vars, tier_vars, redis_up, clock, caller, catalog_cache>>

\* The batches of the agents of both stores, sent to the platform's own host.
SyncCalls ==
    {HttpRequest(SyncPath, <<"api.platform.example", "443">>, "", "", client, st) :
        client \in Identifiers, st \in StoreIds}

\* Counts that make a store tier1, and tier2.
IngressSamples == {Metrics(60, 5), Metrics(20, 5)}

\* Sync ingress while the classifier moves the stores between tiers.
NextIngress ==
    \/ \E st \in StoreIds, m \in IngressSamples : record_activity(st, m)
    \/ \E st \in StoreIds : adjust_tier(st)
    \/ \E req \in SyncCalls, first \in StoreIds \cup {""} : dispatch(req, first)

SpecIngress == Init /\ [][NextIngress]_vars

\* Requests of browsers: a custom domain, the platform's host or a local one, with and
\* without the header and the query parameter.
TenantCalls ==
    {HttpRequest(path, host, x_store_id, store_id, "10.0.0.1", "") :
        path \in {StorefrontPath, PaymentsPath},
        host \in {<<"shop1.example">>, <<"nobody.example", "8000">>, <<"localhost", "8000">>},
        x_store_id \in {"", "s2", UnknownId, NotAUuid},
        store_id \in {"", "s1", "s2"}}

\* Tenant resolution while stores get suspended.
NextTenant ==
    \/ \E st \in StoreIds : suspend_store(st)
    \/ \E req \in TenantCalls, first \in StoreIds \cup {""} : dispatch(req, first)

SpecTenant == Init /\ [][NextTenant]_vars

\* --------------------------------------------------------------- two stores
\* The batches of a store's agent for product e1.
StoreRequests(st) == RequestsOf({sync_api_key(st)}, {st}, BatchesOf(ItemsOf({"e1"}, {"aa"}, Quantities), 1..MaxBatchLen))

\* The worker that serves a store's agent.
worker_of(st) == IF st = "s1" THEN "w1" ELSE "w2"

\* The agents of two stores, each served by its own worker, at once.
NextTwoStores ==
    \/ \E st \in StoreIds : sync_products_batch(worker_of(st), StoreRequests(st))
    \/ \E w \in Workers : _upsert_product(w)
    \/ \E w \in Workers : commit_update(w)
    \/ \E w \in Workers : commit_insert(w)
    \/ \E w \in Workers : _update_inventory_only(w)
    \/ \E w \in Workers : commit_inventory(w)
    \/ \E w \in Workers : process_batch_sync(w)

SpecTwoStores == Init /\ [][NextTwoStores]_vars

\* -------------------------------------------------------------- batch size
\* A batch of n records for product e1, with alternating quantities.
BatchOfLen(n) == [k \in 1..n |-> [external_id |-> "e1", name |-> "aa", mrp |-> 100, selling_price |-> 75, quantity |-> k % 2]]

\* The batches of store s1's agent: no record, one or two records, and one record more
\* than max_items.
SizedRequests == RequestsOf({"k1"}, {"s1"}, {BatchOfLen(n) : n \in {0, 1, MaxBatchLen, MaxItems + 1}})

NextBatchSize ==
    \/ sync_products_batch("w1", SizedRequests)
    \/ _upsert_product("w1")
    \/ commit_update("w1")
    \/ commit_insert("w1")
    \/ _update_inventory_only("w1")
    \/ commit_inventory("w1")
    \/ process_batch_sync("w1")

SpecBatchSize == Init /\ [][NextBatchSize]_vars

\* ----------------------------------------------------------- catalog cache
\* The batches of store s1's agent for one product, and the storefront's readers.
CatalogRequests == RequestsOf({"k1"}, {"s1"}, BatchesOf(ItemsOf({"e1"}, {"aa"}, Quantities), 1..1))

NextCatalogCache ==
    \/ sync_products_batch("w1", CatalogRequests)
    \/ _upsert_product("w1")
    \/ commit_update("w1")
    \/ commit_insert("w1")
    \/ _update_inventory_only("w1")
    \/ commit_inventory("w1")
    \/ process_batch_sync("w1")
    \/ \E product_id \in 1..MaxBatchLen : get_product("s1", product_id)
    \/ \E product_id \in 1..MaxBatchLen : get_product_inventory("s1", product_id)

SpecCatalogCache == Init /\ [][NextCatalogCache]_vars

\* --------------------------------------------------------------- storefront
\* The quantities of the agent's records, and of an order's lines.
Stock == {0, 1, 2}

OrderQuantities == {1, 2}

\* The batches of store s1's agent for product e1, and the orders of its storefront:
\* one or two lines for the store's product.
ShopRequests == RequestsOf({"k1"}, {"s1"}, BatchesOf(ItemsOf({"e1"}, {"aa"}, Stock), 1..MaxBatchLen))

Orders == BatchesOf([product_id : {1}, quantity : OrderQuantities], 1..2)

NextStorefront ==
    \/ sync_products_batch("w1", ShopRequests)
    \/ _upsert_product("w1")
    \/ commit_update("w1")
    \/ commit_insert("w1")
    \/ _update_inventory_only("w1")
    \/ commit_inventory("w1")
    \/ process_batch_sync("w1")
    \/ \E items \in Orders : create_order("s1", items)

SpecStorefront == Init /\ [][NextStorefront]_vars

\* ---------------------------------------------------------------- denials
\* Browsers of two clients on the storefront.
StorefrontCalls ==
    {HttpRequest(StorefrontPath, host, x_store_id, "", client, "") :
        host \in {<<"shop1.example">>, <<"localhost", "8000">>}, x_store_id \in {"", "s1"}, client \in Identifiers}

\* The cache after a client's requests of the current minute used up all of its limit
\* but one.
InitBusy ==
    /\ InitCatalog
    /\ counters = {[key |-> cache_key("10.0.0.1", StorefrontPath, 0), value |-> RATE_LIMIT_STOREFRONT - 1, expire_at |-> 60]}
    /\ redis_up = TRUE
    /\ clock = 0
    /\ caller = [c \in Callers |-> IdleCaller]
    /\ served = NoServed
    /\ tenant_cache = {}
    /\ catalog_cache = {}

NextDenied ==
    \/ tick
    \/ \E req \in StorefrontCalls, first \in StoreIds \cup {""} : dispatch(req, first)

SpecDenied == InitBusy /\ [][NextDenied]_vars

\* ------------------------------------------------------------ tenant cache
MaxTime == 7200

\* Just less than the time to live of a store entry, and all of it.
Waits == {3599, 3600}

\* Time passes; the cache drops the keys whose time to live is over.
wait(d) ==
    /\ clock + d <= MaxTime
    /\ clock' = clock + d
    /\ counters' = {e \in counters : e.expire_at > clock + d}
    /\ tenant_cache' = {e \in tenant_cache : e.expire_at > clock + d}
    /\ UNCHANGED <<sync_vars, tier_vars, redis_up, caller, served, catalog_cache>>

\* Requests to the storefront that name store s1 by its domain or by the header, or
\* that name no store.
CacheCalls ==
    {HttpRequest(StorefrontPath, host, x_store_id, "", "10.0.0.1", "") :
        host \in {<<"shop1.example">>, <<"localhost", "8000">>}, x_store_id \in {"", "s1"}}

\* Tenant resolution through the cache while stores get suspended and time passes.
NextTenantCache ==
    \/ \E st \in StoreIds : suspend_store(st)
    \/ \E d \in Waits : wait(d)
    \/ \E req \in CacheCalls, first \in StoreIds \cup {""} : dispatch(req, first)

SpecTenantCache == Init /\ [][NextTenantCache]_vars

\* ================================================================== claims
Running == {"loop", "upsert", "commit_update", "commit_insert", "commit_inventory"}

\* The batch names no external_id with two different contents.
NoConflict(b) == \A i, j \in 1..Len(b) : b[i].external_id = b[j].external_id => _calculate_checksum(b[i]) = _calculate_checksum(b[j])

\* Worker w has just answered the replay of a delta batch.
Replayed(w) == replay.on /\ session[w].pc = "done" /\ session[w].request.sync_type = "delta"

C2_ReplayReportsNoUpdate ==
    (Replayed("w1") /\ NoConflict(session["w1"].request.products))
        => session["w1"].response.created = 0 /\ session["w1"].response.updated = 0

\* C3: at most one catalog item per (store_id, external_id).
C3_UniqueExternalId ==
    \A i, j \in 1..Len(products) :
        (products[i].store_id = products[j].store_id /\ products[i].external_id = products[j].external_id) => i = j

\* Two workers raced to create the same item, or one batch named it twice: one row.
C3_Witness ==
    /\ Len(products) = 1
    /\ \E w \in Workers : \E k \in 1..Len(session[w].stats.errors) : session[w].stats.errors[k].error = "IntegrityError"
    /\ \E w \in Workers : session[w].pc = "done" /\ session[w].response.created = 1 /\ session[w].response.updated = 1

\* C4: sync_version is 1 at creation, grows by exactly 1 on each applied update and is
\* never lowered.
C4_VersionCountsUpdates ==
    [][/\ \A k \in 1..Len(products) : products'[k].sync_version >= products[k].sync_version
       /\ \A k \in (Len(products) + 1)..Len(products') : products'[k].sync_version = 1
       /\ \A w \in Workers :
            (session[w].pc = "commit_update" /\ session'[w].stats.updated = session[w].stats.updated + 1)
                => products'[session[w].row].sync_version = products[session[w].row].sync_version + 1]_vars

\* The batch holds exactly one record without an external_id.
OneBadRecord(b) == Cardinality({k \in 1..Len(b) : b[k].external_id = ""}) = 1

\* C5: a batch of an authenticated agent with one record that has no external_id is
\* answered with processed = the number of records submitted and failed = 1.
C5_BadRecordIsolated ==
    \A w \in Workers :
        (session[w].pc \in {"done", "rejected"} /\ session[w].http \notin {HTTP_401_UNAUTHORIZED, HTTP_403_FORBIDDEN, HTTP_500_INTERNAL_SERVER_ERROR}
            /\ OneBadRecord(session[w].request.products))
        => (session[w].pc = "done" /\ session[w].response.processed = Len(session[w].request.products) /\ session[w].response.failed = 1)

\* The records of worker w's batch that the database does not take.
Refused(w) == {j \in 1..Len(session[w].request.products) : ~name_fits(session[w].request.products[j]) \/ ~adaptable(session[w].request.products[j].external_id)}

\* C6: when the upsert of a record raises, the batch is still answered normally: of M
\* records with N failing, N are counted as failed, M - N are processed, and every
\* record the database takes has its item.
C6_FailureIsolated ==
    LET s == session["w1"]
        b == s.request.products
    IN s.pc \in {"done", "error"} =>
         /\ s.http = 200
         /\ s.stats.failed = Cardinality(Refused("w1"))
         /\ s.stats.processed = Len(b) - Cardinality(Refused("w1"))
         /\ \A j \in (1..Len(b)) \ Refused("w1") : find_product(products, s.request.store_id, b[j].external_id) # 0

\* The SyncLog rows of worker w's batch.
LogsOf(w) == {k \in 1..Len(sync_logs) : sync_logs[k].id = session[w].sync_id}

\* C7: a batch that has ended has exactly one SyncLog row, whose id is the sync_id
\* returned to the caller, also when records of the batch failed; a batch still in its
\* loop has none.
C7_OneSyncLogPerBatch ==
    \A w \in Workers :
        /\ session[w].pc \in Running => LogsOf(w) = {}
        /\ session[w].pc \in {"done", "error"} =>
             /\ Cardinality(LogsOf(w)) = 1
             /\ session[w].response.sync_id = session[w].sync_id

\* C8: last_sync_at of a store changes only at the end of a batch of that store in
\* which at least one record was processed, and the end of a batch in which every
\* record failed leaves it unchanged.
C8_LastSyncOnlyOnSuccess ==
    [][/\ \A st \in StoreIds :
            stores'[st].last_sync_at # stores[st].last_sync_at
               => \E w \in Workers : /\ session[w].pc = "loop" /\ session'[w].pc = "done"
                                      /\ session[w].request.store_id = st /\ session[w].stats.processed >= 1
       /\ \A w \in Workers :
            (session[w].pc = "loop" /\ session'[w].pc \in {"done", "error"} /\ session[w].stats.processed = 0)
               => stores'[session[w].request.store_id].last_sync_at = stores[session[w].request.store_id].last_sync_at]_vars

\* The key of the request is the key of an active store, the store the request names.
Authentic(strs, req) == \E st \in StoreIds : sync_api_key(st) = req.api_key /\ strs[st].is_active /\ st = req.store_id

\* C9: a request is processed only when its key is the key of an active store whose id
\* is the request's store_id; any other request is rejected on arrival and changes no
\* item, SyncLog row or last_sync_at, and every such change is made for a batch that
\* was admitted.
C9_OnlyAuthenticBatches ==
    [][/\ \A w \in Workers :
            /\ (received' # received /\ session'[w] # session[w] /\ ~Authentic(stores, session'[w].request))
                  => (session'[w].pc = "rejected" /\ products' = products /\ sync_logs' = sync_logs /\ stores' = stores)
            /\ (session[w].pc = "rejected" /\ session'[w] # session[w]) => received' # received
       /\ (products' # products \/ sync_logs' # sync_logs \/ \E st \in StoreIds : stores'[st].last_sync_at # stores[st].last_sync_at)
            => \E w \in Workers : session[w].pc \in Running /\ session[w].request.api_key = sync_api_key(session[w].request.store_id)]_vars

\* The right key and store_id of a suspended store: rejected.
C9_Witness ==
    \E w \in Workers :
        /\ session[w].pc = "rejected" /\ session[w].http = HTTP_403_FORBIDDEN
        /\ session[w].request.api_key = sync_api_key(session[w].request.store_id)
        /\ ~stores[session[w].request.store_id].is_active
        /\ Len(products) > 0

\* C10: once two sessions that upserted the same external_id have both finished, the
\* item equals one of the submitted records in name, mrp, selling_price and quantity,
\* and its sync_checksum is that record's fingerprint.
C10_NoMixedItem ==
    (\A w \in Workers : session[w].pc = "done" /\ session[w].request.sync_type \in {"delta", "full"} /\ session[w].response.failed = 0)
        => \A r \in 1..Len(products) :
              \E w \in Workers : \E k \in 1..Len(session[w].request.products) :
                 LET p == session[w].request.products[k]
                 IN /\ p.external_id = products[r].external_id
                    /\ products[r].name = p.name /\ products[r].mrp = p.mrp
                    /\ products[r].selling_price = p.selling_price /\ products[r].quantity = p.quantity
                    /\ products[r].sync_checksum = _calculate_checksum(p)

C12_TierTable ==
    /\ \A st \in StoreIds :
          LET m == _get_activity_metrics(products, st)
              o == m.orders_per_day
              u == m.products_updated_per_day
              tier == _calculate_tier(m)
              minutes == _get_sync_interval(tier)
          IN /\ (o >= 50 \/ u >= 100) => (tier = "tier1" /\ minutes = 5)
             /\ (o < 50 /\ u < 100 /\ (o >= 20 \/ u >= 30)) => (tier = "tier2" /\ minutes = 15)
             /\ (o < 20 /\ u < 30 /\ (o >= 5 \/ u >= 10)) => (tier = "tier3" /\ minutes = 60)
             /\ (o < 5 /\ u < 10) => (tier = "tier4" /\ minutes = 240)
             /\ evaluations[st] >= 1 => stores[st].sync_tier = tier
             /\ (evaluations[st] >= 1 /\ tier # "tier3") => stores[st].sync_interval_minutes = minutes
    /\ _calculate_tier(Metrics(60, 5)) = "tier1"
    /\ _calculate_tier(Metrics(0, 0)) = "tier4" /\ _get_sync_interval(_calculate_tier(Metrics(0, 0))) = 240

C12_Witness ==
    /\ activity["s1"] = Metrics(60, 5) /\ evaluations["s1"] >= 1
    /\ stores["s1"].sync_tier = "tier1" /\ stores["s1"].sync_interval_minutes = 5
    /\ activity["s2"] = Metrics(0, 0) /\ evaluations["s2"] >= 1
    /\ stores["s2"].sync_tier = "tier4" /\ stores["s2"].sync_interval_minutes = 240

\* C13: evaluate_and_adjust_tier writes only when the tier it computes differs from the
\* stored one: a run that finds the stored tier, and so every run after a run with the
\* same counts, changes no field of any store and logs no tier change.
C13_RerunWritesNothing ==
    [][\A st \in StoreIds :
         evaluations'[st] > evaluations[st] =>
            /\ stores'[st].sync_tier = _calculate_tier(_get_activity_metrics(products, st))
            /\ (stores[st].sync_tier = _calculate_tier(_get_activity_metrics(products, st)) \/ evaluations[st] >= 1) =>
                  (stores' = stores /\ tier_changes' = tier_changes)]_vars

C13_Witness ==
    /\ evaluations["s1"] = 2 /\ evaluations["s2"] = 0
    /\ tier_changes = 1
    /\ stores["s1"].sync_tier = "tier1"

\* C14: once the periodic task has run over the active stores, every active store's
\* sync_tier is the tier of its current counts.
C14_TaskAdjustsTiers ==
    [][task_result' # task_result =>
          \A st \in StoreIds :
             stores'[st].is_active => stores'[st].sync_tier = _calculate_tier(_get_activity_metrics(products', st))]_vars

\* The calls for one key that returned inside the window of the key.
InWindow(c) == caller[c].pc = "returned" /\ caller[c].returned_at < reset_time(caller[c].current_minute, caller[c].window)

SameKey(c, d) ==
    /\ caller[c].identifier = caller[d].identifier /\ caller[c].endpoint = caller[d].endpoint
    /\ caller[c].current_minute = caller[d].current_minute

Bucket(c) == {d \in Callers : InWindow(d) /\ SameKey(c, d)}

C16_AtomicIncrement ==
    \A c \in Callers :
       InWindow(c) =>
          LET n == Cardinality(Bucket(c))
              admitted == Cardinality({d \in Bucket(c) : caller[d].result.allowed})
          IN /\ \A d \in Bucket(c) : d # c => caller[d].count # caller[c].count
             /\ admitted = IF n < caller[c].limit THEN n ELSE caller[c].limit

\* The call that read the time first was overtaken at the counter and is the one denied.
C16_Witness ==
    /\ InWindow("c1") /\ InWindow("c2") /\ SameKey("c1", "c2")
    /\ caller["c1"].called_at < caller["c2"].called_at
    /\ caller["c2"].count = 1 /\ caller["c1"].count = 2
    /\ caller["c1"].limit = 1
    /\ caller["c2"].result.allowed /\ ~caller["c1"].result.allowed

\* C19: a call that finds the cache unavailable, or whose increment fails, is allowed,
\* whatever its identifier and endpoint and whatever the counter holds.
C19_FailsOpen ==
    [][\A c \in Callers :
         (caller[c].pc = "increment" /\ caller'[c].pc = "returned" /\ ~redis_up) =>
            /\ caller'[c].result.allowed
            /\ caller'[c].result.remaining = caller[c].limit]_vars

\* The client's budget was used up, the cache went away, and the next call is allowed.
C19_Witness ==
    /\ ~redis_up
    /\ InWindow("c1") /\ InWindow("c2") /\ SameKey("c1", "c2") /\ caller["c1"].limit = 1
    /\ caller["c1"].count = 1 /\ caller["c1"].result.allowed
    /\ caller["c2"].count = 0 /\ caller["c2"].result.allowed
    /\ value_of(counters, cache_key(caller["c2"].identifier, caller["c2"].endpoint, caller["c2"].current_minute)) = 1

\* The budget of a tier: tier1 1000, tier2 500, lower tiers 200 requests a minute.
Budget(tier) == IF tier = "tier1" THEN 1000 ELSE IF tier = "tier2" THEN 500 ELSE 200

IsSync(sv) == sv.request.path = SyncPath

\* C17: the limit applied to a sync request is the budget of the calling store's tier
\* at the time of the request, also after the classifier has changed the tier.
C17_LimitFollowsTier ==
    [][(served' # served /\ IsSync(served')) =>
          served'.limit = Budget(stores[served'.request.body_store_id].sync_tier)]_vars

\* C18: the counter key of a sync request carries the calling store's id, and a request
\* of one store leaves the budget of another store as it was: the first request of a
\* store in a window is counted as 1 and has the whole budget but one remaining.
C18_CounterPerStore ==
    [][(served' # served /\ IsSync(served')) =>
          /\ served'.identifier = served'.request.body_store_id
          /\ (served.n = 1 /\ IsSync(served) /\ served.request.body_store_id # served'.request.body_store_id) =>
                (served'.count = 1 /\ served'.result.remaining = served'.limit - 1)]_vars

\* C20: the store of a request is the one its custom domain matches, also when the
\* header or the query parameter names another store; the header counts only when the
\* domain matched no store, the query parameter only when the header matched none, and
\* the default store only when all three matched none.
C20_Precedence ==
    LET req == served.request
        host == host_of(req)
        by_domain == {st \in StoreIds : ~is_local(host) /\ domain_of(st) = host}
        by_header == {st \in StoreIds : by_domain = {} /\ st = req.x_store_id}
        by_query == {st \in StoreIds : by_domain = {} /\ by_header = {} /\ st = req.store_id}
        resolved == served.state.store_id
        found == served.raised \in {0, HTTP_403_FORBIDDEN} /\ (served.raised = 0 => resolved # Unset)
    IN (served.n > 0 /\ req \in TenantCalls) =>
          /\ by_domain # {} => (found /\ served.via = "domain" /\ (served.raised = 0 => resolved \in by_domain))
          /\ by_header # {} => (found /\ served.via = "header" /\ (served.raised = 0 => resolved \in by_header))
          /\ by_query # {} =>
                \/ found /\ served.via = "query" /\ (served.raised = 0 => resolved \in by_query)
                \/ req.x_store_id = NotAUuid /\ served.raised = HTTP_500_INTERNAL_SERVER_ERROR
          /\ served.via = "domain" => by_domain # {}
          /\ served.via = "header" => by_header # {}
          /\ served.via = "query" => by_query # {}
          /\ served.via = "default" => (by_domain = {} /\ by_header = {} /\ by_query = {})

\* The domain names s1, the header and the query parameter name s2, and s1 it is.
C20_Witness ==
    /\ served.request.host = <<"shop1.example">> /\ served.request.x_store_id = "s2" /\ served.request.store_id = "s2"
    /\ served.raised = 0 /\ served.state.store_id = "s1"
    /\ stores["s2"].is_active

\* The entries of the whitelist: a path is on it when it starts with an entry, and the
\* entry "/" stands for the root path.
Whitelisted(path) == path = <<>> \/ \E prefix \in public_paths \ {<<>>} : path_startswith(path, prefix)

\* Neither the domain, nor the header, nor the query parameter of the request names a store.
NamesNoStore(req) ==
    /\ is_local(host_of(req)) \/ \A st \in StoreIds : domain_of(st) # host_of(req)
    /\ req.x_store_id \notin StoreIds /\ req.store_id \notin StoreIds

\* C21: a request to a path that is not on the public whitelist, for which domain,
\* header and query parameter resolve no store, is rejected with Store not found and
\* never runs with the default store's identity.
C21_DefaultOnlyOnWhitelist ==
    (served.n > 0 /\ served.request \in TenantCalls /\ ~Whitelisted(served.request.path) /\ NamesNoStore(served.request)) =>
       /\ served.raised # 0
       /\ served.state.store_id = Unset
       /\ served.via # "default"

\* The key of the cache entry the resolution of the served request went through.
KeyUsed(sv) ==
    IF sv.via = "domain" THEN <<"store", "domain", host_of(sv.request)>>
    ELSE IF sv.via = "header" THEN <<"store", sv.request.x_store_id, "config">>
    ELSE IF sv.via = "query" THEN <<"store", sv.request.store_id, "config">>
    ELSE <<"store", "default">>

\* The store the request names by its domain, header or query parameter ("" for none).
Named(sv) ==
    IF sv.via = "domain" THEN CHOOSE st \in StoreIds : domain_of(st) = host_of(sv.request)
    ELSE IF sv.via = "header" THEN sv.request.x_store_id
    ELSE IF sv.via = "query" THEN sv.request.store_id
    ELSE ""

\* C22 (as the code has it): an entry of the tenant cache is a copy of the store's row at
\* the time it is written and lives 3600 s from then, a hit does not write it again, and
\* a request is accepted as a store that is deactivated only through such an entry.  Once
\* the entry is gone, a request that names the store by domain or id is rejected as
\* inactive, and the default lookup yields a store that is active.
C22_StaleBoundedByTtl ==
    [][/\ \A e \in tenant_cache' \ tenant_cache :
             e.store = store_dict(stores, e.store.id) /\ e.expire_at = clock + 3600
       /\ \A e \in tenant_cache : e.expire_at > clock /\ e.expire_at <= clock + 3600
       /\ served' # served =>
             /\ (served'.raised = 0 /\ served'.state.store_id \in StoreIds /\ ~stores[served'.state.store_id].is_active) =>
                   \E e \in tenant_cache \cap tenant_cache' :
                      e.key = KeyUsed(served') /\ e.store.id = served'.state.store_id /\ e.store.is_active
             /\ (Named(served') \in StoreIds /\ ~stores[Named(served')].is_active
                 /\ ~\E e \in tenant_cache : e.key = KeyUsed(served')) =>
                   served'.raised = HTTP_403_FORBIDDEN
             /\ (served'.via = "default" /\ ~\E e \in tenant_cache : e.key = <<"store", "default">>) =>
                   stores[served'.state.store_id].is_active]_vars

\* A request is accepted as the deactivated store s1 one second before the entry, which
\* was written at time 0, expires.
C22_Witness ==
    /\ clock = 3599 /\ served.minute = 59
    /\ served.via = "header" /\ served.raised = 0 /\ served.state.store_id = "s1"
    /\ ~stores["s1"].is_active
    /\ \E e \in tenant_cache : e.key = <<"store", "s1", "config">> /\ e.expire_at = 3600 /\ e.store.is_active

\* C22: once the cache holds no entry of a deactivated store any more, the request that
\* was accepted as that store (resolved by domain, by id or as default store) is rejected
\* as inactive.
C22_StaleRejectedAfterTtl ==
    [][(/\ served' # served /\ served'.request = served.request
        /\ served.raised = 0 /\ served.state.store_id \in StoreIds
        /\ ~stores[served.state.store_id].is_active
        /\ ~\E e \in tenant_cache : e.store.id = served.state.store_id) =>
          served'.raised = HTTP_403_FORBIDDEN]_vars

\* The catalog entries of the batch's store that were written before the batch arrived.
WrittenBefore(s) ==
    {e \in catalog_cache : e.key[2] = s.request.store_id /\ e.written_at < s.sync_id}

\* C23: when a batch has completed, no catalog entry of its store that was written
\* before the batch (product detail, product list, per-product inventory) is left in the
\* cache.
C23_BatchInvalidatesCatalog ==
    session["w1"].pc = "done" => WrittenBefore(session["w1"]) = {}

\* C24: a batch that passed the key check and the body's validation and whose store_id
\* is not the store of its API key is answered with 403, not with 500.
C24_MismatchIs403 ==
    \A w \in Workers :
       (/\ session[w].pc = "rejected" /\ session[w].http # 422
        /\ store_of_key(session[w].request.api_key) # {}
        /\ sync_api_key(session[w].request.store_id) # session[w].request.api_key) =>
          session[w].http = HTTP_403_FORBIDDEN

\* C25: a batch with no record or with more than 1000 records is rejected as a whole
\* when it arrives: none of its records is looked at, and no catalog item and no sync
\* log is written for it.
C25_SizeRejected ==
    [][\A w \in Workers :
          (session'[w] # session[w] /\ Len(session'[w].request.products) \notin 1..MaxItems) =>
             /\ session'[w].pc = "rejected" /\ session'[w].http = 422
             /\ session'[w].i = 0 /\ session'[w].stats = ZeroStats
             /\ products' = products /\ sync_logs' = sync_logs]_vars

\* A batch of 1001 records for product e1 was rejected while the catalog holds e1 with
\* a quantity other than the one of the batch's last record.
C25_Witness ==
    /\ session["w1"].pc = "rejected"
    /\ Len(session["w1"].request.products) = MaxItems + 1
    /\ find_product(products, "s1", "e1") # 0
    /\ products[find_product(products, "s1", "e1")].quantity # session["w1"].request.products[MaxItems + 1].quantity

\* The catalog items of a store, in the order of the table.
ItemsOfStore(rows, st) == SelectSeq(rows, LAMBDA r : r.store_id = st)

\* C26: a step that creates, changes or deletes a catalog item of a store is a step of a
\* session whose batch is of that store.
C26_OtherStoreUntouched ==
    [][\A st \in StoreIds :
          ItemsOfStore(products', st) # ItemsOfStore(products, st) =>
             \E w \in Workers : session'[w] # session[w] /\ session[w].request.store_id = st]_vars

\* Both stores hold an item e1, with different quantities, while both sessions are about
\* to commit an update of their item.
C26_Witness ==
    /\ session["w1"].pc = "commit_update" /\ session["w2"].pc = "commit_update"
    /\ session["w1"].request.store_id = "s1" /\ session["w2"].request.store_id = "s2"
    /\ find_product(products, "s1", "e1") # 0 /\ find_product(products, "s2", "e1") # 0
    /\ products[find_product(products, "s1", "e1")].quantity # products[find_product(products, "s2", "e1")].quantity

\* C27: a request the rate limiter denies is not handed to the handler behind it.
C27_DeniedNotHandled ==
    (served.n > 0 /\ served.limit > 0 /\ ~served.result.allowed) => ~served.handled

\* The record a session is at, and the item of its store with the record's external_id
\* in a table (NoProduct for none).
RecordAt(s) == s.request.products[s.i]

ItemFor(rows, s) ==
    IF find_product(rows, s.request.store_id, RecordAt(s).external_id) = 0 THEN NoProduct
    ELSE rows[find_product(rows, s.request.store_id, RecordAt(s).external_id)]

\* C28: when a record of a delta batch has been applied without a failure, the item
\* holds the record's name, mrp, selling_price and quantity, whatever inventory-only
\* update or order touched the item since its checksum was written.
C28_DeltaRecordApplied ==
    [][\A w \in Workers :
          (/\ session[w].pc \in {"loop", "commit_update", "commit_insert"}
           /\ session[w].request.sync_type = "delta"
           /\ session'[w].i = session[w].i + 1
           /\ session'[w].stats.failed = session[w].stats.failed) =>
             /\ ItemFor(products', session[w]).name = RecordAt(session[w]).name
             /\ ItemFor(products', session[w]).mrp = RecordAt(session[w]).mrp
             /\ ItemFor(products', session[w]).selling_price = RecordAt(session[w]).selling_price
             /\ ItemFor(products', session[w]).quantity = RecordAt(session[w]).quantity]_vars

\* C30: every catalog item has is_in_stock = (quantity > 0).
C30_InStockIffPositive ==
    \A k \in 1..Len(products) : products[k].is_in_stock = (products[k].quantity > 0)

\* C29: once evaluate_and_adjust_tier has run for a store, the store's
\* sync_interval_minutes is the interval of its sync_tier.
C29_IntervalOfTier ==
    \A st \in StoreIds :
       evaluations[st] > 0 => stores[st].sync_interval_minutes = _get_sync_interval(stores[st].sync_tier)

====
